---- MODULE Spec2Model ----
(***************************************************************************)
(* Model of skill_to_mcp: SkillParser (skill_parser.py) and the three MCP  *)
(* tools registered in tools/_skills.py, running over a small POSIX        *)
(* filesystem.  Paths are sequences of component names; a pathlib.Path is  *)
(* a record [abs, parts]; file text is a sequence of tokens.               *)
(***************************************************************************)
EXTENDS Integers, Sequences, FiniteSets, TLC

VARIABLES fs, scanOrder, changes, skills_directory, last, pending, history

vars == <<fs, scanOrder, changes, skills_directory, last, pending, history>>

(* ---------------------------------------------------------------- bounds *)
\* number of external filesystem changes in one behaviour
MaxFsChanges == 1
\* number of symbolic links followed while resolving one path
MaxLinkHops == 3
\* number of nested directories one recursive walk may enter
MaxWalkDepth == 5

(* ------------------------------------------------------------ small sets *)
Range(s) == {s[i] : i \in 1..Len(s)}

NL == "\n"
SP == " "
DASH == "---"

\* the process's working directory (absolute, canonical)
Cwd == <<"srv">>

RootAbs == <<"srv", "skills">>
SkillA == <<"srv", "skills", "a">>
SkillB == <<"srv", "skills", "b">>
OutDir == <<"srv", "out">>

\* every absolute path that can exist in the modelled filesystem
Universe ==
  { <<"srv">>, RootAbs, SkillA, SkillB, OutDir,
    SkillA \o <<"SKILL.md">>, SkillA \o <<"f.txt">>, SkillA \o <<"sub">>,
    SkillA \o <<"sub", "g.txt">>,
    SkillB \o <<"SKILL.md">>,
    OutDir \o <<"secret.txt">>, OutDir \o <<"SKILL.md">> }

\* characters of every component name, as code points
Chars ==
  [ n \in {"srv", "skills", "out", "a", "b", "sub", "SKILL.md", "f.txt", "g.txt",
           "secret.txt", "missing.txt", "none.txt", "..", "."} |->
      CASE n = "srv" -> <<115, 114, 118>>
        [] n = "skills" -> <<115, 107, 105, 108, 108, 115>>
        [] n = "out" -> <<111, 117, 116>>
        [] n = "a" -> <<97>>
        [] n = "b" -> <<98>>
        [] n = "sub" -> <<115, 117, 98>>
        [] n = "SKILL.md" -> <<83, 75, 73, 76, 76, 46, 109, 100>>
        [] n = "f.txt" -> <<102, 46, 116, 120, 116>>
        [] n = "g.txt" -> <<103, 46, 116, 120, 116>>
        [] n = "secret.txt" -> <<115, 101, 99, 114, 101, 116, 46, 116, 120, 116>>
        [] n = "missing.txt" -> <<109, 105, 115, 115, 105, 110, 103, 46, 116, 120, 116>>
        [] n = "none.txt" -> <<110, 111, 110, 101, 46, 116, 120, 116>>
        [] n = ".." -> <<46, 46>>
        [] n = "." -> <<46>> ]

\* os.sep
Sep == <<47>>

(* ------------------------------------------------------------ filesystem *)
Absent == [kind |-> "none"]
DirEntry == [kind |-> "dir"]
FileEntry(data) == [kind |-> "file", data |-> data, readable |-> TRUE]
LockedFile(data) == [kind |-> "file", data |-> data, readable |-> FALSE]
LinkEntry(target) == [kind |-> "link", target |-> target]

\* lstat: the entry at an absolute path, links not followed
Lookup(f, p) == IF p \in DOMAIN f THEN f[p] ELSE Absent

ParentOf(p) == IF p = <<>> THEN <<>> ELSE SubSeq(p, 1, Len(p) - 1)

IsPrefix(a, b) == Len(a) <= Len(b) /\ SubSeq(b, 1, Len(a)) = a

\* the root directory "/" always exists
KindAt(f, p) == IF p = <<>> THEN "dir" ELSE Lookup(f, p).kind

(* os.path.realpath: walk the components of rest from the canonical prefix  *)
(* path.  Non-strict (Path.resolve()): a missing component is kept and the *)
(* remainder is joined lexically.  Strict (what stat() does): a missing    *)
(* component, or a component below a non-directory, fails.                 *)
RECURSIVE JoinRealPath(_, _, _, _, _)
JoinRealPath(f, path, rest, strict, fuel) ==
  IF rest = <<>> THEN [ok |-> TRUE, path |-> path]
  ELSE
    LET name == Head(rest)
        tl == Tail(rest)
    IN IF strict /\ KindAt(f, path) # "dir" THEN [ok |-> FALSE, path |-> path]
       ELSE IF name = "." THEN JoinRealPath(f, path, tl, strict, fuel)
       ELSE IF name = ".." THEN JoinRealPath(f, ParentOf(path), tl, strict, fuel)
       ELSE
         LET newpath == Append(path, name)
             e == Lookup(f, newpath)
         IN IF e.kind = "none"
              THEN IF strict THEN [ok |-> FALSE, path |-> newpath]
                   ELSE JoinRealPath(f, newpath, tl, strict, fuel)
            ELSE IF e.kind = "link"
              THEN IF fuel = 0 THEN [ok |-> FALSE, path |-> newpath]
                   ELSE JoinRealPath(f, IF e.target.abs THEN <<>> ELSE path,
                                     e.target.parts \o tl, strict, fuel - 1)
            ELSE JoinRealPath(f, newpath, tl, strict, fuel)

(* ---------------------------------------------------------- pathlib.Path *)
MkPath(abs, parts) == [abs |-> abs, parts |-> parts]

\* PurePath parsing drops "." components
ParsePath(raw) == MkPath(raw.abs, SelectSeq(raw.segs, LAMBDA s : s # "."))

\* Path.__truediv__: an absolute right operand replaces the left one
JoinPath(p, q) == IF q.abs THEN q ELSE MkPath(p.abs, p.parts \o q.parts)

PathParent(p) == MkPath(p.abs, ParentOf(p.parts))

\* the absolute component list the kernel sees for a Path
Absolute(p) == IF p.abs THEN p.parts ELSE Cwd \o p.parts

\* Path.resolve()
Resolve(f, p) == MkPath(TRUE, JoinRealPath(f, <<>>, Absolute(p), FALSE, MaxLinkHops).path)

\* the strict resolution of a Path: what the kernel does for stat() and open()
Stat(f, p) == JoinRealPath(f, <<>>, Absolute(p), TRUE, MaxLinkHops)

\* the kind of the entry a strict resolution ended at
KindOfReal(f, r) == IF r.ok THEN KindAt(f, r.path) ELSE "none"

\* Path.stat(): the kind of the entry a Path leads to, links followed
StatKind(f, p) == KindOfReal(f, Stat(f, p))

\* canonical location of the entry a Path leads to (meaningful when it exists)
RealOf(f, p) == Stat(f, p).path

PathExists(f, p) == StatKind(f, p) # "none"
PathIsFile(f, p) == StatKind(f, p) = "file"
PathIsDir(f, p) == StatKind(f, p) = "dir"

\* Path.is_relative_to
IsRelativeTo(p, q) == p.abs = q.abs /\ IsPrefix(q.parts, p.parts)

\* Path.relative_to (called only when IsRelativeTo holds)
RelativeTo(p, q) == MkPath(FALSE, SubSeq(p.parts, Len(q.parts) + 1, Len(p.parts)))

RECURSIVE JoinChars(_)
JoinChars(parts) ==
  IF parts = <<>> THEN <<>>
  ELSE IF Len(parts) = 1 THEN Chars[parts[1]]
  ELSE Chars[parts[1]] \o Sep \o JoinChars(Tail(parts))

\* str(Path)
Str(p) ==
  IF p.abs THEN Sep \o JoinChars(p.parts)
  ELSE IF p.parts = <<>> THEN <<46>>
  ELSE JoinChars(p.parts)

(* --------------------------------------------------------- manifest text *)
\* a file whose bytes are not valid UTF-8
Binary == <<"\\xff">>

Manifest(lines) == <<DASH, NL>> \o lines \o <<NL, DASH, NL, "body">>

ValidManifest(nameLine) == Manifest(<<nameLine, NL, "description: d">>)

\* key: value lines of the header
KV ==
  [ t \in {"name: alpha", "name: beta", "name: omega", "name: 42",
           "description: d", "license: MIT"} |->
      CASE t = "name: alpha" -> [k |-> "name", v |-> [type |-> "str", val |-> "alpha"]]
        [] t = "name: beta" -> [k |-> "name", v |-> [type |-> "str", val |-> "beta"]]
        [] t = "name: omega" -> [k |-> "name", v |-> [type |-> "str", val |-> "omega"]]
        [] t = "name: 42" -> [k |-> "name", v |-> [type |-> "int", val |-> "42"]]
        [] t = "description: d" -> [k |-> "description", v |-> [type |-> "str", val |-> "d"]]
        [] t = "license: MIT" -> [k |-> "license", v |-> [type |-> "str", val |-> "MIT"]] ]

\* plain scalars, and the required keys each contains as a substring
StrScalars == [t \in {"plain", "name description"} |->
                 IF t = "plain" THEN {} ELSE {"name", "description"}]
IntScalars == {"42"}
\* block sequence items "- x"
ListItems == [t \in {"- name", "- description", "- item"} |->
                CASE t = "- name" -> "name"
                  [] t = "- description" -> "description"
                  [] t = "- item" -> "item"]
Comments == {"# comment"}

IsWs(t) == t = NL \/ t = SP

(* re.match(r"^---\s*\n(.*?)\n---\s*\n", content, re.DOTALL): the opening  *)
(* \s* is greedy (it may swallow blank lines), the group is lazy.          *)
OpenStarts(c) ==
  {i \in 3..(Len(c) + 1) : c[i - 1] = NL /\ \A j \in 2..(i - 1) : IsWs(c[j])}

Closes(c, s) ==
  {e \in (s - 1)..Len(c) :
     /\ e + 2 <= Len(c)
     /\ c[e + 1] = NL
     /\ c[e + 2] = DASH
     /\ \E k \in (e + 3)..Len(c) : c[k] = NL /\ \A j \in (e + 3)..(k - 1) : IsWs(c[j])}

SetMax(S) == CHOOSE x \in S : \A y \in S : y <= x
SetMin(S) == CHOOSE x \in S : \A y \in S : x <= y

NoMatch == [matched |-> FALSE, group |-> <<>>]

\* the group for the chosen opening: up to the first closing delimiter
GroupFrom(c, s) == SubSeq(c, s, SetMin(Closes(c, s)))

MatchFrom(c, starts) ==
  IF starts = {} THEN NoMatch
  ELSE [matched |-> TRUE, group |-> GroupFrom(c, SetMax(starts))]

FrontmatterMatch(c) ==
  IF c = <<>> \/ c[1] # DASH THEN NoMatch
  ELSE MatchFrom(c, {s \in OpenStarts(c) : Closes(c, s) # {}})

\* the significant tokens of a YAML document: blank lines and comments dropped
YamlTokens(g) == SelectSeq(g, LAMBDA t : ~IsWs(t) /\ t \notin Comments)

\* the last value given for a key (PyYAML keeps the last duplicate)
LastValue(toks, key) ==
  KV[toks[SetMax({i \in 1..Len(toks) : KV[toks[i]].k = key})]].v

LoadTokens(toks) ==
  IF toks = <<>> THEN [type |-> "null"]
  ELSE IF \A i \in 1..Len(toks) : toks[i] \in DOMAIN KV
    THEN [type |-> "map",
          keys |-> {KV[toks[i]].k : i \in 1..Len(toks)},
          toks |-> toks]
  ELSE IF \A i \in 1..Len(toks) : toks[i] \in DOMAIN ListItems
    THEN [type |-> "list", items |-> {ListItems[toks[i]] : i \in 1..Len(toks)}]
  ELSE IF Len(toks) = 1 /\ toks[1] \in DOMAIN StrScalars
    THEN [type |-> "str", subs |-> StrScalars[toks[1]]]
  ELSE IF Len(toks) = 1 /\ toks[1] \in IntScalars
    THEN [type |-> "int"]
  ELSE [type |-> "error"]

(* yaml.safe_load of a header built from one token per line *)
SafeLoad(g) == LoadTokens(YamlTokens(g))

Malformed == [type |-> "raise", exc |-> "ValueError", err |-> "MalformedManifest"]

\* `except yaml.YAMLError: raise ValueError`
HeaderValue(y) == IF y.type = "error" THEN Malformed ELSE y

\* `if not match: raise ValueError`, else the group is loaded
HeaderOf(m) == IF ~m.matched THEN Malformed ELSE HeaderValue(SafeLoad(m.group))

(* SkillParser._extract_frontmatter *)
ExtractFrontmatter(content) == HeaderOf(FrontmatterMatch(content))

\* reading the entry e of kind k found at the canonical location real
ReadEntry(k, e, real) ==
  IF k = "none" THEN [status |-> "raise", exc |-> "OSError", err |-> "FileNotFoundError"]
  ELSE IF k = "dir" THEN [status |-> "raise", exc |-> "OSError", err |-> "IsADirectoryError"]
  ELSE IF ~e.readable THEN [status |-> "raise", exc |-> "OSError", err |-> "PermissionError"]
  ELSE IF e.data = Binary
    THEN [status |-> "raise", exc |-> "ValueError", err |-> "UnicodeDecodeError"]
  ELSE [status |-> "ok", text |-> e.data, src |-> real]

ReadAt(f, r) == ReadEntry(KindOfReal(f, r), Lookup(f, r.path), r.path)

(* Path.read_text(encoding="utf-8") *)
ReadText(f, p) == ReadAt(f, Stat(f, p))

\* `key in frontmatter` for the value safe_load returned
HasKey(y, key) ==
  CASE y.type = "map" -> key \in y.keys
    [] y.type = "str" -> key \in y.subs
    [] y.type = "list" -> key \in y.items
    [] OTHER -> FALSE

\* the field checks and the SkillMetadata built from the header y
MetadataOfHeader(y, skill_md_path) ==
  IF y.type = "raise" THEN [status |-> "raise", exc |-> y.exc, err |-> y.err]
  \* `in` on None or an int raises TypeError
  ELSE IF y.type \in {"null", "int"}
    THEN [status |-> "raise", exc |-> "TypeError", err |-> "TypeError"]
  ELSE IF ~HasKey(y, "name")
    THEN [status |-> "raise", exc |-> "ValueError", err |-> "MissingField"]
  ELSE IF ~HasKey(y, "description")
    THEN [status |-> "raise", exc |-> "ValueError", err |-> "MissingField"]
  \* frontmatter["name"] on a str or a list raises TypeError
  ELSE IF y.type # "map"
    THEN [status |-> "raise", exc |-> "TypeError", err |-> "TypeError"]
  ELSE [status |-> "ok",
        meta |-> [name |-> LastValue(y.toks, "name"),
                  description |-> LastValue(y.toks, "description"),
                  skill_path |-> PathParent(skill_md_path)]]

MetadataOfText(rd, skill_md_path) ==
  IF rd.status # "ok" THEN [status |-> "raise", exc |-> rd.exc, err |-> rd.err]
  ELSE MetadataOfHeader(ExtractFrontmatter(rd.text), skill_md_path)

(* SkillParser.parse_skill_metadata *)
ParseSkillMetadata(f, skill_md_path) ==
  MetadataOfText(ReadText(f, skill_md_path), skill_md_path)

(* -------------------------------------------------------------- Path.rglob *)
\* os.scandir: the names in a directory, in the order the filesystem gives
ScanDir(f, order, dirReal) ==
  SelectSeq(order, LAMBDA n : Lookup(f, Append(dirReal, n)).kind # "none")

Child(d, name) == JoinPath(d, MkPath(FALSE, <<name>>))

\* a walk that also enters directories reached through a symbolic link
DescendsLinks(f, p) == StatKind(f, MkPath(TRUE, p)) = "dir"

\* `entry.is_dir() and not entry.is_symlink()`: "**" enters real directories
Descends(f, p) == Lookup(f, p).kind = "dir"

\* the directories "**" visits, pre-order, to the depth the fuel allows
RECURSIVE IterateDirectories(_, _, _, _)
RECURSIVE IterateIn(_, _, _, _, _)
RECURSIVE IterateChildren(_, _, _, _, _, _)
IterateDirectories(f, order, d, fuel) ==
  IF fuel = 0 THEN <<>> ELSE IterateIn(f, order, d, RealOf(f, d), fuel)

IterateIn(f, order, d, real, fuel) ==
  <<d>> \o IterateChildren(f, order, d, real, ScanDir(f, order, real), fuel)

IterateChildren(f, order, d, real, names, fuel) ==
  IF names = <<>> THEN <<>>
  ELSE (IF Descends(f, Append(real, Head(names)))
          THEN IterateDirectories(f, order, Child(d, Head(names)), fuel - 1)
          ELSE <<>>)
       \o IterateChildren(f, order, d, real, Tail(names), fuel)

\* the walk below d comes to an end: no chain of directories outlasts the fuel
RECURSIVE WalkEndsIn(_, _, _, _)
WalkEndsIn(f, d, real, fuel) ==
  /\ fuel > 0
  /\ \A n \in {m \in DOMAIN Chars : Descends(f, Append(real, m))} :
       WalkEndsIn(f, Child(d, n), RealOf(f, Child(d, n)), fuel - 1)

WalkEnds(f, root) ==
  ~PathIsDir(f, root) \/ WalkEndsIn(f, root, RealOf(f, root), MaxWalkDepth)

RECURSIVE FlatMap(_, _)
FlatMap(seqs, i) == IF i > Len(seqs) THEN <<>> ELSE seqs[i] \o FlatMap(seqs, i + 1)

Candidates(dirs, name) == [i \in 1..Len(dirs) |-> Child(dirs[i], name)]

Existing(f, cand) == SelectSeq(cand, LAMBDA p : PathExists(f, p))

\* root.rglob(name) for a literal name: parent / name wherever it exists
RGlobName(f, order, root, name) ==
  IF ~PathIsDir(f, root) THEN <<>>
  ELSE Existing(f, Candidates(IterateDirectories(f, order, root, MaxWalkDepth), name))

EntriesIn(d, names) == [j \in 1..Len(names) |-> Child(d, names[j])]

EntriesOf(f, order, dirs) ==
  FlatMap([i \in 1..Len(dirs) |->
             EntriesIn(dirs[i], ScanDir(f, order, RealOf(f, dirs[i])))], 1)

\* root.rglob("*"): every entry of every visited directory
RGlobAll(f, order, root) ==
  IF ~PathIsDir(f, root) THEN <<>>
  ELSE EntriesOf(f, order, IterateDirectories(f, order, root, MaxWalkDepth))

(* SkillParser.find_all_skills *)
RECURSIVE CollectSkills(_, _, _)
RECURSIVE CollectStep(_, _, _, _)
CollectSkills(f, mds, acc) ==
  IF mds = <<>> THEN [status |-> "ok", skills |-> acc]
  ELSE CollectStep(f, mds, acc, ParseSkillMetadata(f, Head(mds)))

\* the try/except around one manifest: only ValueError and OSError are caught
CollectStep(f, mds, acc, r) ==
  IF r.status = "ok" THEN CollectSkills(f, Tail(mds), Append(acc, r.meta))
  ELSE IF r.exc \in {"ValueError", "OSError"} THEN CollectSkills(f, Tail(mds), acc)
  ELSE [status |-> "raise", skills |-> <<>>]

(* the tree the registry starts on *)
BodyText == <<"text">>
SecretText == <<"secret">>

\* a manifest outside every skill directory
OutsideManifest == Manifest(<<"name: alpha", NL, "description: d", NL, "license: MIT">>)

BaseFS ==
  [p \in Universe |->
     CASE p \in {<<"srv">>, RootAbs, SkillA, SkillB, OutDir, SkillA \o <<"sub">>} -> DirEntry
       [] p = SkillA \o <<"SKILL.md">> -> FileEntry(ValidManifest("name: alpha"))
       [] p = SkillB \o <<"SKILL.md">> -> FileEntry(ValidManifest("name: beta"))
       [] p = SkillA \o <<"f.txt">> -> FileEntry(BodyText)
       [] p = SkillA \o <<"sub", "g.txt">> -> FileEntry(BodyText)
       [] p = OutDir \o <<"secret.txt">> -> FileEntry(SecretText)
       [] p = OutDir \o <<"SKILL.md">> -> FileEntry(OutsideManifest)]

\* discovery answered from the tree as it was at startup
StartupSkills(f, order, root) ==
  IF ~WalkEnds(BaseFS, root) THEN [status |-> "diverge", skills |-> <<>>]
  ELSE CollectSkills(BaseFS, RGlobName(BaseFS, order, root, "SKILL.md"), <<>>)

\* discovery that lets the error of a missing root through
RootCheckedSkills(f, order, root) ==
  IF ~PathExists(f, root) THEN [status |-> "raise", skills |-> <<>>]
  ELSE IF ~WalkEnds(f, root) THEN [status |-> "diverge", skills |-> <<>>]
  ELSE CollectSkills(f, RGlobName(f, order, root, "SKILL.md"), <<>>)

\* a walk without end never hands the list back
FindAllSkills(f, order, root) ==
  IF ~WalkEnds(f, root) THEN [status |-> "diverge", skills |-> <<>>]
  ELSE CollectSkills(f, RGlobName(f, order, root, "SKILL.md"), <<>>)

(* ------------------------------------------------------------- results *)
Modes == {"content", "file_path", "both"}

NoArgs == [name |-> "", rel |-> [abs |-> FALSE, segs |-> <<>>], mode |-> "",
           relative |-> FALSE]

Args(name, rel, mode, relative) ==
  [name |-> name, rel |-> rel, mode |-> mode, relative |-> relative]

\* what one call gave back: status "ok", the kind of error raised, or
\* "NoReturn" for a call that never ends; src is
\* the set of canonical locations of the files whose text or path was
\* returned; skill is the skill_path the call acted on; io tells whether the
\* call touched the filesystem
Result(op, args, status) ==
  [op |-> op, args |-> args, status |-> status, content |-> <<>>,
   file_path |-> <<>>, files |-> <<>>, records |-> <<>>, src |-> {},
   skill |-> <<>>, listed_from |-> <<>>, io |-> TRUE]

\* the failure of a call that raised before touching the filesystem
EarlyFailure(op, args, status) == [Result(op, args, status) EXCEPT !.io = FALSE]

\* `skill.name == skill_name`: only a str value can equal the str argument
NameEquals(meta, skill_name) == meta.name.type = "str" /\ meta.name.val = skill_name

\* the loop keeping the last record it accepts instead of returning at once
LastMatch(skills, skill_name) ==
  LET hits == {i \in 1..Len(skills) : NameEquals(skills[i], skill_name)}
  IN IF hits = {} THEN 0 ELSE SetMax(hits)

\* index of the first record the `for skill in skills` loop accepts, 0 if none
FirstMatch(skills, skill_name) ==
  LET hits == {i \in 1..Len(skills) : NameEquals(skills[i], skill_name)}
  IN IF hits = {} THEN 0 ELSE SetMin(hits)

\* what the loop over the discovered records ends with
LookupAt(found, i) ==
  IF found.status = "diverge" THEN [status |-> "NoReturn", skill |-> <<>>]
  ELSE IF found.status # "ok" THEN [status |-> "TypeError", skill |-> <<>>]
  ELSE IF i = 0 THEN [status |-> "SkillNotFound", skill |-> <<>>]
  ELSE [status |-> "ok", skill |-> <<found.skills[i]>>]

LookupIn(found, skill_name) == LookupAt(found, FirstMatch(found.skills, skill_name))

\* `skills = self.find_all_skills()` followed by the loop
FindByName(f, order, root, skill_name) ==
  LookupIn(FindAllSkills(f, order, root), skill_name)

\* str < str: code point order
StrLess(a, b) ==
  LET n == IF Len(a) < Len(b) THEN Len(a) ELSE Len(b)
      diffs == {i \in 1..n : a[i] # b[i]}
  IN IF diffs = {} THEN Len(a) < Len(b)
     ELSE LET i == SetMin(diffs) IN a[i] < b[i]

RECURSIVE Insert(_, _)
Insert(sorted, x) ==
  IF sorted = <<>> THEN <<x>>
  ELSE IF StrLess(x, Head(sorted)) THEN <<x>> \o sorted
  ELSE <<Head(sorted)>> \o Insert(Tail(sorted), x)

\* sorted(files)
RECURSIVE Sorted(_)
Sorted(s) == IF s = <<>> THEN <<>> ELSE Insert(Sorted(Tail(s)), Head(s))

\* a listing returned in directory order
WalkOrder(files) == files

\* `return sorted(files)`
SortFiles(files) == Sorted(files)

\* a mode check that lets every value through
AnyMode(return_type) == TRUE

\* `return_type in ("content", "file_path", "both")`
ValidMode(return_type) == return_type \in Modes

\* the candidate made absolute without resolving links or ".."
AbsoluteCandidate(f, skill_path, relative_path) ==
  MkPath(TRUE, Absolute(JoinPath(skill_path, ParsePath(relative_path))))

\* `(skill.skill_path / relative_path).resolve()`
CandidatePath(f, skill_path, relative_path) ==
  Resolve(f, JoinPath(skill_path, ParsePath(relative_path)))

\* the checks with existence tested before containment
ChecksExistenceFirst(f, file_path, skill_path) ==
  IF ~PathExists(f, file_path) THEN "FileNotFound"
  ELSE IF ~IsRelativeTo(file_path, Resolve(f, skill_path)) THEN "PathTraversal"
  ELSE IF ~PathIsFile(f, file_path) THEN "NotAFile"
  ELSE "ok"

\* the checks without the is_file test
ChecksNoFileTest(f, file_path, skill_path) ==
  IF ~IsRelativeTo(file_path, Resolve(f, skill_path)) THEN "PathTraversal"
  ELSE IF ~PathExists(f, file_path) THEN "FileNotFound"
  ELSE "ok"

\* the three checks of get_skill_file, in the order the code makes them
FileChecks(f, file_path, skill_path) ==
  IF ~IsRelativeTo(file_path, Resolve(f, skill_path)) THEN "PathTraversal"
  ELSE IF ~PathExists(f, file_path) THEN "FileNotFound"
  ELSE IF ~PathIsFile(f, file_path) THEN "NotAFile"
  ELSE "ok"

\* the value for a mode, given the read rd and the canonical location canon
ShapedRead(res, rd, canon, pathStr, return_type) ==
  IF return_type = "file_path"
    THEN [res EXCEPT !.file_path = <<pathStr>>, !.src = {canon}]
  ELSE IF rd.status # "ok" THEN [res EXCEPT !.status = rd.err]
  ELSE IF return_type = "content"
    THEN [res EXCEPT !.content = <<rd.text>>, !.src = {rd.src}]
  ELSE [res EXCEPT !.content = <<rd.text>>, !.file_path = <<pathStr>>,
                   !.src = {rd.src, canon}]

(* the tail of get_skill_content / get_skill_file: shape the value by mode *)
Shaped(f, res, path, pathStr, return_type) ==
  ShapedRead(res, ReadText(f, path), Resolve(f, path).parts, pathStr, return_type)

\* the manifest's path returned as it was joined, without resolve()
ManifestUnresolved(f, res, skill_md_path, return_type) ==
  Shaped(f, res, skill_md_path, Str(skill_md_path), return_type)

\* `skill_md_path = skill.skill_path / "SKILL.md"` and the return
ManifestOf(f, res, skill_md_path, return_type) ==
  Shaped(f, res, skill_md_path, Str(Resolve(f, skill_md_path)), return_type)

ContentOf(f, hit, res, return_type) ==
  IF hit.status # "ok" THEN [res EXCEPT !.status = hit.status]
  ELSE ManifestOf(f, [res EXCEPT !.skill = <<hit.skill[1].skill_path>>],
                  Child(hit.skill[1].skill_path, "SKILL.md"), return_type)

(* SkillParser.get_skill_content *)
GetSkillContent(f, order, root, skill_name, return_type) ==
  IF ~ValidMode(return_type)
    THEN EarlyFailure("get_skill_content",
                      Args(skill_name, NoArgs.rel, return_type, FALSE), "InvalidMode")
  ELSE ContentOf(f, FindByName(f, order, root, skill_name),
                 Result("get_skill_content",
                        Args(skill_name, NoArgs.rel, return_type, FALSE), "ok"),
                 return_type)

\* `if file_path.is_file()`
KeepFiles(f, entries) == SelectSeq(entries, LAMBDA p : PathIsFile(f, p))

\* `str(file_path.relative_to(skill.skill_path))` or `str(file_path)`
FileNames(kept, skill_path, relative) ==
  [k \in 1..Len(kept) |->
     IF relative THEN Str(RelativeTo(kept[k], skill_path)) ELSE Str(kept[k])]

ListUnder(f, order, res, skill_path, relative) ==
  IF ~WalkEnds(f, skill_path) THEN [res EXCEPT !.status = "NoReturn"]
  ELSE
  [res EXCEPT
     !.files = SortFiles(FileNames(KeepFiles(f, RGlobAll(f, order, skill_path)),
                                   skill_path, relative)),
     !.skill = <<skill_path>>]

ListOf(f, order, hit, res, relative) ==
  IF hit.status # "ok" THEN [res EXCEPT !.status = hit.status]
  ELSE ListUnder(f, order, res, hit.skill[1].skill_path, relative)

(* SkillParser.list_skill_files *)
ListSkillFiles(f, order, root, skill_name, relative) ==
  ListOf(f, order, FindByName(f, order, root, skill_name),
         Result("list_skill_files", Args(skill_name, NoArgs.rel, "", relative), "ok"),
         relative)

FileChecked(f, res, file_path, check, return_type) ==
  IF check # "ok" THEN [res EXCEPT !.status = check]
  ELSE Shaped(f, res, file_path, Str(file_path), return_type)

FileUnder(f, res, skill_path, file_path, return_type) ==
  FileChecked(f, res, file_path, FileChecks(f, file_path, skill_path), return_type)

FileOf(f, hit, res, relative_path, return_type) ==
  IF hit.status # "ok" THEN [res EXCEPT !.status = hit.status]
  ELSE FileUnder(f, [res EXCEPT !.skill = <<hit.skill[1].skill_path>>],
                 hit.skill[1].skill_path,
                 CandidatePath(f, hit.skill[1].skill_path, relative_path),
                 return_type)

(* SkillParser.get_skill_file *)
GetSkillFile(f, order, root, skill_name, relative_path, return_type) ==
  IF ~ValidMode(return_type)
    THEN EarlyFailure("get_skill_file",
                      Args(skill_name, relative_path, return_type, FALSE), "InvalidMode")
  ELSE FileOf(f, FindByName(f, order, root, skill_name),
              Result("get_skill_file",
                     Args(skill_name, relative_path, return_type, FALSE), "ok"),
              relative_path, return_type)

\* SkillMetadata.to_dict
ToDict(meta) == [name |-> meta.name, description |-> meta.description,
                 path |-> Str(meta.skill_path)]

\* the list find_all_skills returned, or the TypeError it let through
Discovered(op, found) ==
  [Result(op, NoArgs, IF found.status = "ok" THEN "ok"
                       ELSE IF found.status = "diverge" THEN "NoReturn"
                       ELSE "TypeError")
     EXCEPT !.records = found.skills]

AsDicts(res) ==
  [res EXCEPT !.records = [i \in 1..Len(res.records) |-> ToDict(res.records[i])]]

(* tool get_available_skills *)
GetAvailableSkills(f, order, root) ==
  AsDicts(Discovered("get_available_skills", FindAllSkills(f, order, root)))

\* a ValueError of either call is re-raised with a prefix, anything else
\* propagates; the file list is asked for only after the content was got
DetailsOf(c, l) ==
  IF c.status # "ok" THEN [c EXCEPT !.op = "get_skill_details"]
  ELSE IF l.status # "ok"
    THEN [l EXCEPT !.op = "get_skill_details", !.args = c.args]
  ELSE [c EXCEPT !.op = "get_skill_details", !.files = l.files,
                 !.listed_from = l.skill]

(* tool get_skill_related_file *)
GetSkillRelatedFile(f, order, root, skill_name, relative_path, return_type) ==
  [GetSkillFile(f, order, root, skill_name, relative_path, return_type)
     EXCEPT !.op = "get_skill_related_file"]

(* ------------------------------------------------------- the filesystem *)
Rel(segs) == [abs |-> FALSE, segs |-> segs]
Abs(segs) == [abs |-> TRUE, segs |-> segs]

\* the texts a SKILL.md is rewritten with
ManifestTexts ==
  { ValidManifest("name: alpha"), ValidManifest("name: beta"),
    ValidManifest("name: 42"),
    <<"body">>,
    <<DASH, NL, "name: beta", NL, "description: d", NL, DASH>>,
    Manifest(<<"name: beta", NL, "[unclosed">>),
    Manifest(<<>>),
    Manifest(<<"# comment">>),
    Manifest(<<"plain">>),
    Manifest(<<"name description">>),
    Manifest(<<"42">>),
    Manifest(<<"- item">>),
    Manifest(<<"- name", NL, "- description">>),
    Manifest(<<"description: d">>),
    Manifest(<<"name: beta">>),
    Binary }

\* the two directory orders the filesystem may give
ScanOrders ==
  { <<"SKILL.md", "a", "b", "f.txt", "g.txt", "out", "secret.txt", "skills", "srv", "sub">>,
    <<"sub", "srv", "skills", "secret.txt", "out", "g.txt", "f.txt", "b", "a", "SKILL.md">> }

\* what an external process may put at a path
WriteOptions(p) ==
  IF p = SkillB \o <<"SKILL.md">>
    THEN {FileEntry(t) : t \in ManifestTexts}
         \cup {LockedFile(ValidManifest("name: beta"))}
  ELSE IF p = SkillA \o <<"SKILL.md">> THEN {FileEntry(ValidManifest("name: alpha"))}
  ELSE IF p = SkillA \o <<"f.txt">> THEN {FileEntry(BodyText), FileEntry(Binary)}
  ELSE IF p = SkillA \o <<"sub", "g.txt">> THEN {FileEntry(BodyText)}
  ELSE IF p = OutDir \o <<"secret.txt">> THEN {FileEntry(SecretText)}
  ELSE {}

LinkOptions(p) ==
  IF p \in {SkillA \o <<"SKILL.md">>, SkillB \o <<"SKILL.md">>}
    THEN {MkPath(TRUE, OutDir \o <<"SKILL.md">>)}
  ELSE IF p = SkillA \o <<"f.txt">>
    THEN {MkPath(FALSE, <<"..", "..", "out", "secret.txt">>), MkPath(FALSE, <<"missing.txt">>)}
  \* a link leading out of the tree, and a link back to its own parent
  ELSE IF p = SkillA \o <<"sub">> THEN {MkPath(TRUE, OutDir), MkPath(TRUE, SkillA)}
  ELSE {}

MkdirOptions == {SkillB \o <<"SKILL.md">>, SkillA \o <<"sub">>}

RemoveOptions ==
  {SkillA \o <<"SKILL.md">>, SkillB \o <<"SKILL.md">>, SkillA \o <<"f.txt">>,
   SkillA \o <<"sub">>, OutDir \o <<"secret.txt">>, RootAbs}

\* replace the entry at p; whatever was below p goes with it
Put(f, p, e) ==
  [q \in DOMAIN f |-> IF q = p THEN e
                      ELSE IF IsPrefix(p, q) THEN Absent
                      ELSE f[q]]

\* no call is in progress: the last result has been taken by the caller
Idle == last.op = "none" /\ pending = <<>>

\* external processes act while the registry is in use: between calls and
\* between the two scans of get_skill_details
CanChange(p) ==
  /\ last.op = "none"
  /\ history # "fresh"
  /\ changes < MaxFsChanges
  /\ KindAt(fs, ParentOf(p)) = "dir"

\* a change that comes after a registry call is remembered as such
EnvFrame ==
  /\ history' = "changed"
  /\ UNCHANGED <<scanOrder, skills_directory, last, pending>>

(* external processes: write a file, make a link, make a directory, remove *)
EnvWrite ==
  \E p \in Universe : \E e \in WriteOptions(p) :
    /\ CanChange(p)
    /\ fs[p] # e
    /\ fs' = Put(fs, p, e)
    /\ changes' = changes + 1
    /\ EnvFrame

EnvSymlink ==
  \E p \in Universe : \E t \in LinkOptions(p) :
    /\ CanChange(p)
    /\ fs[p] # LinkEntry(t)
    /\ fs' = Put(fs, p, LinkEntry(t))
    /\ changes' = changes + 1
    /\ EnvFrame

EnvMkdir ==
  \E p \in MkdirOptions :
    /\ CanChange(p)
    /\ fs[p].kind # "dir"
    /\ fs' = Put(fs, p, DirEntry)
    /\ changes' = changes + 1
    /\ EnvFrame

EnvRemove ==
  \E p \in RemoveOptions :
    /\ CanChange(p)
    /\ fs[p].kind # "none"
    /\ fs' = Put(fs, p, Absent)
    /\ changes' = changes + 1
    /\ EnvFrame

(* ------------------------------------------------------------ the inputs *)
RootInputs ==
  { Abs(<<"srv", "skills">>), Rel(<<"skills">>),
    Abs(<<"srv", "skills", "a", "f.txt">>), Abs(<<"srv", "none.txt">>) }

NameInputs == {"alpha", "beta", "Alpha"}

ModeInputs == Modes \cup {"full"}

ToolNameInputs == {"alpha"}
ToolModeInputs == {"content", "full"}

\* the files parse_skill_metadata is called on
ManifestInputs == {Rel(<<"a", "SKILL.md">>), Rel(<<"b", "SKILL.md">>)}

\* the contents _extract_frontmatter is called on
ContentInputs == ManifestTexts \ {Binary}

RelPathInputs ==
  { Rel(<<>>), Rel(<<".">>), Rel(<<"SKILL.md">>), Rel(<<"f.txt">>), Rel(<<"sub">>),
    Rel(<<"sub", "g.txt">>), Rel(<<"sub", "..", "f.txt">>), Rel(<<"missing.txt">>),
    Rel(<<"sub", "secret.txt">>),
    Rel(<<"..", "b", "SKILL.md">>),
    Rel(<<"..", "..", "out", "secret.txt">>), Rel(<<"..", "..", "out", "none.txt">>),
    Abs(<<"srv", "out", "secret.txt">>), Abs(<<"srv", "skills", "a", "f.txt">>) }

\* get_skill_file is called on every path in content mode, on some paths in
\* every mode, and on a name of the wrong case
GetFileInputs ==
  {<<"alpha", rp, "content">> : rp \in RelPathInputs}
  \cup {<<"alpha", rp, m>> :
          rp \in {Rel(<<"SKILL.md">>), Rel(<<"f.txt">>), Rel(<<"sub">>),
                  Rel(<<"..", "..", "out", "secret.txt">>)},
          m \in ModeInputs}
  \cup {<<"Alpha", rp, m>> :
          rp \in {Rel(<<"f.txt">>), Rel(<<"..", "..", "out", "secret.txt">>)},
          m \in {"content", "full"}}

\* the tool layer is exercised on fewer paths
ToolRelPathInputs ==
  { Rel(<<"SKILL.md">>), Rel(<<"f.txt">>), Rel(<<"..", "..", "out", "secret.txt">>) }

(* ------------------------------------------------------------ operations *)
NoResult == Result("none", NoArgs, "none")

Init ==
  /\ fs = BaseFS
  /\ scanOrder \in ScanOrders
  /\ changes = 0
  /\ skills_directory = <<>>
  /\ last = NoResult
  /\ pending = <<>>
  /\ history = "fresh"

\* `if not self.skills_directory.exists(): raise ValueError`
ParserFor(path, exists) == IF exists THEN <<path>> ELSE <<>>

(* SkillParser.__init__ *)
SkillParserInit(f, skills_directory_arg) ==
  ParserFor(ParsePath(skills_directory_arg), PathExists(f, ParsePath(skills_directory_arg)))

Construct ==
  \E r \in RootInputs :
    /\ Idle
    /\ skills_directory' = SkillParserInit(fs, r)
    /\ last' = Result("construct", Args("", r, "", FALSE),
                      IF skills_directory' # <<>> THEN "ok" ELSE "InvalidRoot")
    /\ UNCHANGED <<fs, scanOrder, changes, pending, history>>

Constructed == Idle /\ skills_directory # <<>>
TheRoot == skills_directory[1]

\* an operation that stores the resolved root back into the registry
ResolvingFrame ==
  /\ skills_directory' = <<Resolve(fs, skills_directory[1])>>
  /\ UNCHANGED <<fs, scanOrder, changes>>

\* no statement of any operation writes to the filesystem or assigns to self
OpFrame == UNCHANGED <<fs, scanOrder, changes, skills_directory>>

\* a registry call has been made
Called == history' = IF history = "fresh" THEN "called" ELSE history

CallFrame == OpFrame /\ Called /\ UNCHANGED pending

CallFindAllSkills ==
  /\ Constructed
  /\ last' = Discovered("find_all_skills", FindAllSkills(fs, scanOrder, TheRoot))
  /\ CallFrame

\* what parse_skill_metadata gave: the record, or the error it raised
Parsed(res, r) ==
  IF r.status = "ok" THEN [res EXCEPT !.records = <<r.meta>>]
  ELSE [res EXCEPT !.status = r.err]

CallParseSkillMetadata ==
  /\ Constructed
  /\ \E m \in ManifestInputs :
       last' = Parsed(Result("parse_skill_metadata", Args("", m, "", FALSE), "ok"),
                      ParseSkillMetadata(fs, JoinPath(TheRoot, ParsePath(m))))
  /\ CallFrame

\* what _extract_frontmatter gave: the header, or MalformedManifest
Extracted(res, y) ==
  IF y.type = "raise" THEN [res EXCEPT !.status = y.err, !.io = FALSE]
  ELSE [res EXCEPT !.records = <<y>>, !.io = FALSE]

CallExtractFrontmatter ==
  /\ Constructed
  /\ \E c \in ContentInputs :
       last' = Extracted([Result("_extract_frontmatter", NoArgs, "ok")
                            EXCEPT !.content = <<c>>],
                         ExtractFrontmatter(c))
  /\ CallFrame

CallGetSkillContent ==
  /\ Constructed
  /\ \E n \in NameInputs, m \in ModeInputs :
       last' = GetSkillContent(fs, scanOrder, TheRoot, n, m)
  /\ CallFrame

CallListSkillFiles ==
  /\ Constructed
  /\ \E n \in NameInputs, rel \in BOOLEAN :
       last' = ListSkillFiles(fs, scanOrder, TheRoot, n, rel)
  /\ CallFrame

CallGetSkillFile ==
  /\ Constructed
  /\ \E i \in GetFileInputs :
       last' = GetSkillFile(fs, scanOrder, TheRoot, i[1], i[2], i[3])
  /\ CallFrame

ToolGetAvailableSkills ==
  /\ Constructed
  /\ last' = GetAvailableSkills(fs, scanOrder, TheRoot)
  /\ CallFrame

\* the first statement of the tool: skill_content is got, or the call raises
ContentGot(c) ==
  IF c.status = "ok" THEN last' = NoResult /\ pending' = <<c>>
  ELSE last' = [c EXCEPT !.op = "get_skill_details"] /\ pending' = <<>>

(* tool get_skill_details, up to `skill_content = ...` *)
ToolGetSkillDetails ==
  /\ Constructed
  /\ \E n \in ToolNameInputs, m \in ToolModeInputs :
       ContentGot(GetSkillContent(fs, scanOrder, TheRoot, n, m))
  /\ OpFrame /\ Called

(* tool get_skill_details, from `files = ...` to the return *)
ToolGetSkillDetailsFiles ==
  /\ pending # <<>>
  /\ last.op = "none"
  /\ last' = DetailsOf(pending[1],
                       ListSkillFiles(fs, scanOrder, TheRoot, pending[1].args.name, TRUE))
  /\ pending' = <<>>
  /\ OpFrame /\ UNCHANGED history

(* tool get_skill_related_file *)
ToolGetSkillRelatedFile ==
  /\ Constructed
  /\ \E n \in ToolNameInputs, rp \in ToolRelPathInputs, m \in ToolModeInputs :
       last' = GetSkillRelatedFile(fs, scanOrder, TheRoot, n, rp, m)
  /\ CallFrame

\* the caller takes the result (or the exception) of the finished call
Return ==
  /\ last.op # "none"
  /\ last' = NoResult
  /\ UNCHANGED <<fs, scanOrder, changes, skills_directory, pending, history>>

Next ==
  \/ Return
  \/ EnvWrite
  \/ EnvSymlink
  \/ EnvMkdir
  \/ EnvRemove
  \/ Construct
  \/ CallFindAllSkills
  \/ CallParseSkillMetadata
  \/ CallExtractFrontmatter
  \/ CallGetSkillContent
  \/ CallListSkillFiles
  \/ CallGetSkillFile
  \/ ToolGetAvailableSkills
  \/ ToolGetSkillDetails
  \/ ToolGetSkillDetailsFiles
  \/ ToolGetSkillRelatedFile

Spec == Init /\ [][Next]_vars

(* ================================================================ claims *)
IsGetFile == last.op \in {"get_skill_file", "get_skill_related_file"}
IsGetContent == last.op \in {"get_skill_content", "get_skill_details"}
IsListFiles == last.op = "list_skill_files"
\* a call of SkillParser.get_skill_content itself, made in one step
IsManifestContent == last.op = "get_skill_content"

\* the call's lookup found a skill
Resolved == last.skill # <<>>

\* canonical form of the root_path of the skill the call acted on
CanonRoot == Resolve(fs, last.skill[1]).parts

\* canonical form of root_path joined with the requested relative_path
Canon == Resolve(fs, JoinPath(last.skill[1], ParsePath(last.args.rel))).parts

Inside == IsPrefix(CanonRoot, Canon)

\* C1: when get_file returns for a skill, every file whose text or path it
\* returned lies at or under the canonical root_path of that skill; when the
\* canonical form of the requested path is not under it, the call fails with
\* PathTraversal and returns neither content nor path.
C1_ContainedOrRejected ==
  (IsGetFile /\ Resolved /\ last.args.mode \in Modes) =>
    /\ last.status = "ok" =>
         (last.src # {} /\ \A s \in last.src : IsPrefix(CanonRoot, s))
    /\ ~Inside =>
         (last.status = "PathTraversal" /\ last.content = <<>> /\ last.file_path = <<>>)

\* a read through ".." that stays inside the skill directory succeeded
C1_Witness ==
  /\ IsGetFile /\ last.status = "ok"
  /\ ".." \in Range(last.args.rel.segs)
  /\ last.src = {SkillA \o <<"f.txt">>}

\* C2: for a found skill and a valid mode, a relative_path resolving outside
\* root_path fails with PathTraversal when the outside target exists and also
\* when it does not; the outcome is never FileNotFound or NotAFile.
C2_TraversalBeforeExistence ==
  (IsGetFile /\ Resolved /\ last.args.mode \in Modes /\ ~Inside) =>
    /\ KindAt(fs, Canon) # "none" => last.status = "PathTraversal"
    /\ KindAt(fs, Canon) = "none" => last.status = "PathTraversal"
    /\ last.status \notin {"FileNotFound", "NotAFile"}

\* an outside path that does not exist was rejected as a traversal
C2_Witness ==
  /\ IsGetFile /\ Resolved /\ last.args.mode \in Modes
  /\ ~Inside /\ KindAt(fs, Canon) = "none"
  /\ last.status = "PathTraversal"

\* C3: no operation returns the text of, or a resolved path to, a file whose
\* canonical location is outside the root directory of the skill it was asked
\* about, also when SKILL.md or another entry is a link leading outside.
C3_NoEscape ==
  (Resolved /\ last.status = "ok") => \A s \in last.src : IsPrefix(CanonRoot, s)

\* a manifest with a well-delimited header that is a mapping with both keys
WellFormedManifest(p) ==
  LET rd == ReadText(fs, MkPath(TRUE, p))
  IN /\ rd.status = "ok"
     /\ FrontmatterMatch(rd.text).matched
     /\ LET y == SafeLoad(FrontmatterMatch(rd.text).group)
        IN y.type = "map" /\ {"name", "description"} \subseteq y.keys

\* the directories below the registry root that hold a well-formed manifest
ValidSkillDirs ==
  {d \in DOMAIN fs :
     /\ fs[d].kind = "dir"
     /\ IsPrefix(Resolve(fs, skills_directory[1]).parts, d)
     /\ WellFormedManifest(d \o <<"SKILL.md">>)}

\* C4: discover_all never fails because of one manifest: whatever a SKILL.md
\* holds, the call returns, with exactly one record per well-formed manifest.
C4_DiscoveryTolerant ==
  (last.op \in {"find_all_skills", "get_available_skills"}
     /\ PathIsDir(fs, skills_directory[1])) =>
    /\ last.status = "ok"
    /\ Len(last.records) = Cardinality(ValidSkillDirs)

\* C5: construction succeeds only for an existing directory; a missing root
\* and a root that is not a directory both fail with InvalidRoot.
C5_RootMustBeDirectory ==
  last.op = "construct" =>
    IF PathIsDir(fs, ParsePath(last.args.rel)) THEN last.status = "ok"
    ELSE last.status = "InvalidRoot"

\* C6: get_manifest_content and get_file with a mode outside content,
\* file_path, both fail with InvalidMode without touching the filesystem,
\* whatever the skill name and the relative path are.
C6_InvalidModeFirst ==
  ((IsGetFile \/ IsGetContent) /\ last.args.mode \notin Modes) =>
    (last.status = "InvalidMode" /\ ~last.io)

\* an unknown skill, an outside path and a bad mode: the mode decides
C6_Witness ==
  /\ last.op = "get_skill_file"
  /\ last.args.mode = "full"
  /\ last.args.name = "Alpha"
  /\ last.args.rel = Rel(<<"..", "..", "out", "secret.txt">>)
  /\ last.status = "InvalidMode"

\* the records the call's own discovery returned, in discovery order
Discovery == FindAllSkills(fs, scanOrder, skills_directory[1])

\* the records whose name is exactly the requested skill_name
Named ==
  {i \in 1..Len(Discovery.skills) :
     Discovery.skills[i].name = [type |-> "str", val |-> last.args.name]}

\* C7: a name-based operation acts on the first record, in discovery order,
\* whose name is exactly skill_name (so with two manifests of one name all
\* three operations act on the first directory), and fails with SkillNotFound
\* when no record has that name.
C7_FirstRecordWins ==
  ((IsGetFile \/ IsManifestContent \/ IsListFiles)
     /\ (IsListFiles \/ last.args.mode \in Modes)
     /\ Discovery.status = "ok") =>
    IF Named = {} THEN last.status = "SkillNotFound"
    ELSE \E i \in Named :
           /\ \A j \in Named : i <= j
           /\ last.skill = <<Discovery.skills[i].skill_path>>

\* two manifests declare alpha, b is walked before a, and the call used b
C7_Witness ==
  /\ IsManifestContent /\ last.status = "ok"
  /\ last.args.name = "alpha"
  /\ Cardinality(Named) = 2
  /\ scanOrder[1] = "sub"
  /\ Resolve(fs, last.skill[1]).parts = SkillB

\* code point order on strings, stated directly
LexLeq(a, b) ==
  \/ \E k \in 1..Len(a) :
       /\ k <= Len(b)
       /\ \A j \in 1..(k - 1) : a[j] = b[j]
       /\ a[k] < b[k]
  \/ (Len(a) <= Len(b) /\ \A j \in 1..Len(a) : a[j] = b[j])

\* how list_files names the entry at parts below the skill's root_path
Listed(parts) ==
  IF last.args.relative THEN Str(MkPath(FALSE, parts))
  ELSE Str(JoinPath(last.skill[1], MkPath(FALSE, parts)))

BelowRoot == {p \in DOMAIN fs : IsPrefix(CanonRoot, p) /\ p # CanonRoot}

Below(p) == SubSeq(p, Len(CanonRoot) + 1, Len(p))

\* C8: list_files returns a sorted sequence that holds SKILL.md, holds every
\* regular file at any depth under root_path exactly once, and holds no
\* directory.
C8_ListingSortedComplete ==
  (IsListFiles /\ last.status = "ok") =>
    /\ \A i \in 1..(Len(last.files) - 1) : LexLeq(last.files[i], last.files[i + 1])
    /\ Listed(<<"SKILL.md">>) \in Range(last.files)
    /\ \A p \in BelowRoot :
         fs[p].kind = "file" =>
           Cardinality({i \in 1..Len(last.files) : last.files[i] = Listed(Below(p))}) = 1
    /\ \A p \in BelowRoot :
         StatKind(fs, MkPath(TRUE, p)) = "dir" => Listed(Below(p)) \notin Range(last.files)

\* a listing with a nested file, taken when the directory order is not sorted
C8_Witness ==
  /\ IsListFiles /\ last.status = "ok"
  /\ scanOrder[1] = "sub"
  /\ Listed(<<"sub", "g.txt">>) \in Range(last.files)
  /\ Len(last.files) >= 3

\* C9: list_files gives absolute paths when relative is false and paths
\* relative to root_path when relative is true, for every accepted root.
C9_AbsoluteOrRelative ==
  (IsListFiles /\ last.status = "ok") =>
    \A i \in 1..Len(last.files) :
      IF last.args.relative THEN last.files[i][1] # Sep[1]
      ELSE last.files[i][1] = Sep[1]

\* C10: for a found skill, a valid mode and a path whose canonical form is
\* inside root_path, get_file fails with FileNotFound when the canonical path
\* does not exist, with NotAFile when it exists and is not a regular file,
\* and returns only for an existing regular file.
C10_InsideOutcome ==
  (IsGetFile /\ Resolved /\ last.args.mode \in Modes /\ Inside) =>
    /\ KindAt(fs, Canon) = "none" => last.status = "FileNotFound"
    /\ KindAt(fs, Canon) \notin {"none", "file"} => last.status = "NotAFile"
    /\ last.status = "ok" => KindAt(fs, Canon) = "file"

\* the skill root itself, asked for as ".", is not a file
C10_Witness ==
  /\ IsGetFile /\ Resolved
  /\ last.args.rel = Rel(<<".">>)
  /\ Canon = CanonRoot
  /\ last.status = "NotAFile"

\* the name the well-formed manifest at p declares
DeclaredName(p) ==
  LastValue(SafeLoad(FrontmatterMatch(ReadText(fs, MkPath(TRUE, p)).text).group).toks,
            "name")

\* the directories that now hold a well-formed manifest declaring skill_name
DeclaredDirs ==
  {d \in ValidSkillDirs :
     DeclaredName(d \o <<"SKILL.md">>) = [type |-> "str", val |-> last.args.name]}

C12_DeletedRootIsEmpty ==
  (skills_directory # <<>> /\ ~PathExists(fs, skills_directory[1])) =>
    /\ last.op \in {"find_all_skills", "get_available_skills"} =>
         (last.status = "ok" /\ last.records = <<>>)
    /\ ((IsGetFile \/ IsGetContent \/ IsListFiles)
          /\ (IsListFiles \/ last.args.mode \in Modes)) =>
         last.status = "SkillNotFound"

\* the root was deleted after construction and alpha is no longer found
C12_Witness ==
  /\ skills_directory # <<>>
  /\ fs[RootAbs].kind = "none"
  /\ IsListFiles /\ last.args.name = "alpha"
  /\ last.status = "SkillNotFound"

\* the file a parse_manifest call was made on, and what it holds now
ParsedFile == JoinPath(skills_directory[1], ParsePath(last.args.rel))
ParsedMatch == FrontmatterMatch(ReadText(fs, ParsedFile).text)
ParsedHeader == SafeLoad(ParsedMatch.group)

HasBothKeys(y) == y.type = "map" /\ {"name", "description"} \subseteq y.keys

\* C13: parse_manifest on a file with a well-delimited header fails with
\* MissingField, and with no other kind of error, whenever the header has no
\* name key or no description key, also when the header is empty, holds only
\* a comment or is not a mapping; a header with both keys and further keys
\* is accepted.
C13_MissingFieldOnly ==
  (last.op = "parse_skill_metadata"
     /\ ReadText(fs, ParsedFile).status = "ok"
     /\ ParsedMatch.matched
     /\ ParsedHeader.type # "error") =>
    IF HasBothKeys(ParsedHeader) THEN last.status = "ok"
    ELSE last.status = "MissingField"

\* C14: every record discover_all returns, and every mapping to_dict makes
\* of one, has a string name and a string description, whatever YAML value
\* the accepted header gives the two keys.
C14_StringFields ==
  (last.op \in {"find_all_skills", "get_available_skills"} /\ last.status = "ok") =>
    \A i \in 1..Len(last.records) :
      /\ last.records[i].name.type = "str"
      /\ last.records[i].description.type = "str"

\* the SKILL.md in the root_path of the first record named skill_name
FirstNamedManifest ==
  Child(Discovery.skills[SetMin(Named)].skill_path, "SKILL.md")

\* C15: for a name that a record of discover_all carries, on the same
\* filesystem, get_manifest_content succeeds; "content" is the whole current
\* text of the SKILL.md of the first record of that name, a text whose header
\* declares the name; "file_path" is the absolute path of that file; "both"
\* is the pair of the two.
C15_RoundTrip ==
  (IsManifestContent /\ last.args.mode \in Modes
     /\ Discovery.status = "ok" /\ Named # {}) =>
    /\ last.status = "ok"
    /\ DeclaredName(RealOf(fs, FirstNamedManifest))
         = [type |-> "str", val |-> last.args.name]
    /\ last.content =
         IF last.args.mode = "file_path" THEN <<>>
         ELSE <<fs[RealOf(fs, FirstNamedManifest)].data>>
    /\ last.file_path =
         IF last.args.mode = "content" THEN <<>>
         ELSE <<Str(MkPath(TRUE, RealOf(fs, FirstNamedManifest)))>>
    /\ last.args.mode # "content" => last.file_path[1][1] = Sep[1]

\* both values were returned by a registry whose root is a relative path
C15_Witness ==
  /\ IsManifestContent /\ last.args.mode = "both" /\ last.status = "ok"
  /\ ~skills_directory[1].abs
  /\ last.args.name = "alpha"
  /\ last.content # <<>> /\ last.file_path # <<>>

\* a step in which an operation of the registry or of the adapter acts
OperationStep == (last' # last /\ last'.op # "none") \/ pending' # pending

\* C16: no operation, succeeding or failing, changes the filesystem, and
\* none but construction sets the registry's root.
C16_NoWrites ==
  [][OperationStep =>
       /\ fs' = fs
       /\ (last'.op # "construct" => skills_directory' = skills_directory)]_vars

\* a failed call on a registry with a relative root, the tree as it was
C16_Witness ==
  /\ last.op = "get_skill_file" /\ last.status = "PathTraversal"
  /\ skills_directory = <<MkPath(FALSE, <<"skills">>)>>
  /\ fs = BaseFS

\* C17: every operation returns: the recursive walks of discover_all and
\* list_files come to an end on every tree, also on a tree in which a
\* symbolic link leads back to a directory above it.
C17_WalksEnd ==
  /\ last.status # "NoReturn"
  /\ skills_directory # <<>> => WalkEnds(fs, skills_directory[1])

\* a/sub is a link to a itself, and the files of a were listed
C17_Witness ==
  /\ fs[SkillA \o <<"sub">>] = LinkEntry(MkPath(TRUE, SkillA))
  /\ IsListFiles /\ last.args.name = "alpha" /\ last.status = "ok"
  /\ Len(last.files) = 2

\* the lines that are exactly "---" and can close a header opened on line one
ClosingLines(c) ==
  {k \in 3..Len(c) : c[k] = DASH /\ c[k - 1] = NL /\ (k = Len(c) \/ c[k + 1] = NL)}

OpensWithDelimiter(c) == Len(c) >= 2 /\ c[1] = DASH /\ c[2] = NL

\* the text between the opening line and the first closing line
DocumentedBlock(c) == SubSeq(c, 3, SetMin(ClosingLines(c)) - 1)

\* C18: extract_header succeeds on every content made of a line "---", a
\* key/value block, a line "---" and any body, the body being empty and the
\* closing line the end of the file included; it fails with
\* MalformedManifest when the first line is not "---", when no closing line
\* follows, or when the block cannot be parsed.
C18_DocumentedFormat ==
  last.op = "_extract_frontmatter" =>
    LET c == last.content[1]
    IN IF ~OpensWithDelimiter(c) \/ ClosingLines(c) = {}
         THEN last.status = "MalformedManifest"
       ELSE IF SafeLoad(DocumentedBlock(c)).type = "error"
         THEN last.status = "MalformedManifest"
       ELSE SafeLoad(DocumentedBlock(c)).type = "map" => last.status = "ok"

\* C19: a get_skill_details call that returns gives a skill_content and a
\* files list taken from one skill directory, whatever the filesystem does
\* between its two scans; a call that raises returns neither.
C19_OneDirectory ==
  last.op = "get_skill_details" =>
    IF last.status = "ok" THEN last.listed_from = last.skill
    ELSE last.content = <<>> /\ last.file_path = <<>> /\ last.files = <<>>

\* what list_files(skill_name, relative = true) gives on the same filesystem
RelativeListing ==
  ListSkillFiles(fs, scanOrder, skills_directory[1], last.args.name, TRUE).files

\* the requested relative_path is one of the listed entries
AskedForListed == Str(ParsePath(last.args.rel)) \in Range(RelativeListing)

\* C20: on an unchanged filesystem get_file succeeds, in every valid mode,
\* for every entry that list_files gives for the skill, and returns the
\* text of that file, also when the entry is a symbolic link or lies in a
\* nested skill directory.
C20_ListableReadable ==
  (last.op = "get_skill_file" /\ last.args.mode \in Modes /\ Resolved
     /\ AskedForListed) =>
    /\ last.status = "ok"
    /\ last.args.mode # "file_path" =>
         last.content = <<fs[Canon].data>>

====
